---- MODULE Spec2Model ----
(***************************************************************************)
(* Transaction layer of coyove/bbolt (src/tx.go, src/page.go).             *)
(*                                                                         *)
(* The model follows Tx.init, Tx.Commit, Tx.commitFreelist, Tx.Rollback,   *)
(* Tx.nonPhysicalRollback, Tx.rollback, Tx.close, Tx.write, Tx.writeMeta,  *)
(* Tx.OnCommit, Tx.Page and the accessors statement by statement, and the   *)
(* functions of page.go (typ, fastCheck, the leaf element's fill and        *)
(* accessors, merge and mergepgids) as operators.  The collaborators in     *)
(* other files (DB.Begin, DB.meta, meta.write, the freelist, the bucket's  *)
(* spill) are modelled from the specification's description of them.       *)
(*                                                                         *)
(* The file is the page cache view of the database file: what writeAt      *)
(* has put there is what the shared mapping, and so DB.meta(), reads.      *)
(*                                                                         *)
(* In the transaction model a dirty page is written in one step and a      *)
(* freelist region is two pages.  The chunk loop of Tx.write and the page  *)
(* arithmetic of Tx.commitFreelist are in addition computed as functions   *)
(* of their arguments (SpecPure), next to the functions of page.go.        *)
(***************************************************************************)
EXTENDS Integers, Sequences, FiniteSets, TLC

\* ---------------------------------------------------------------- bounds
\* Number of transaction objects the clients create (each Begin makes one).
MaxTx == 2
\* Number of handlers a client registers on one transaction.
MaxHandlers == 2
\* The transaction whose client registers handlers.
HandlerTx == 1
\* The transaction whose client calls Page.
PageTx == 1
\* Number of child buckets, one page each, in the database the bucket
\* deletions start from.
MaxBucketPages == 2
\* The page ids of the sequences given to merge are 1..MaxMergeId.
MaxMergeId == 4
\* The page flags given to fastCheck are 0..MaxFlag.
MaxFlag == 33
\* How far above its bound a field given to fill goes.
MaxOver == 1
\* commitFreelist is computed for regions of 2..MaxRegionPages pages and for
\* flid in 0..MaxFlid.
MaxRegionPages == 4
MaxFlid == 3
\* write() is computed for up to MaxWritePages dirty pages with ids in
\* 1..MaxWriteId and overflow in 0..MaxOverflow, the writeAt that fails being
\* one of the first MaxFailAt or none.
MaxWritePages == 2
MaxWriteId == 4
MaxOverflow == 2
MaxFailAt == 3

\* ------------------------------------------------------ program constants
\* unsafe.Sizeof(page{}): id 8 + flags 2 + count 2 + overflow 4 bytes.
pageHeaderSize == 16
\* unsafe.Sizeof(pgid(0)): one serialized freelist entry.
pgidSize == 8
\* db.pageSize and freelistRegionSize, scaled down: a region is two pages.
pageSize == 32
freelistRegionSize == 64

Txs == 1..MaxTx
NoTx == 0

\* The page id of the freelist page without the parity of flid.
freelistPageIdAt_noParity(flid, ps, rs) == 2 + (flid * rs) \div ps

\* The page id commitFreelist gives the freelist page, for a page size ps and
\* a region size rs: 2 + (flid%2)*freelistRegionSize/pgid(pageSize); Go
\* evaluates * and / left to right.
freelistPageIdAt(flid, ps, rs) == 2 + ((flid % 2) * rs) \div ps

\* The same with db.pageSize and freelistRegionSize.
freelistPageId(flid) == freelistPageIdAt(flid, pageSize, freelistRegionSize)

\* First page after the two meta pages and the two freelist regions.
firstDataPage == 2 + (2 * freelistRegionSize) \div pageSize

InitTxid == 1
MaxTxid == InitTxid + MaxTx
Txids == 0..MaxTxid

\* ------------------------------------------------------------------ state
VARIABLES
    metaSlot,      \* file: the two meta pages, page id 0 and 1
    flRegion,      \* file: the freelist page at the head of each region
    dataOK,        \* db.data != nil
    rwlock,        \* db.rwlock is held
    rwtx,          \* db.rwtx
    txs,           \* db.txs: the open read-only transactions
    freelist,      \* db.freelist: ids, pending by txid, the writer's allocs
    tx,            \* the Tx objects: writable, db, meta, root, pages, handlers
    pc,            \* where each transaction's client thread stands
    op,            \* the exported call the thread is in
    last,          \* the call that returned in this step, and what it returned
    loc,           \* Commit's locals: opgid, the sorted pages of write(), ...
    invoked,       \* the commit handlers run so far, in order
    okMeta,        \* history: the meta of the last Commit that returned nil
    hist           \* history kept per transaction for the properties below

vars == <<metaSlot, flRegion, dataOK, rwlock, rwtx, txs, freelist, tx, pc, op,
          last, loc, invoked, okMeta, hist>>

\* The file, the database object, the transactions' threads.
file == <<metaSlot, flRegion>>

\* A meta page as it lies in the file.  valid is the result of
\* meta.validate(): magic, version and checksum match.
Meta(txid, root, pgid, flid) ==
    [valid |-> TRUE, txid |-> txid, root |-> root, pgid |-> pgid, flid |-> flid]
TornMeta == [valid |-> FALSE, txid |-> 0, root |-> 0, pgid |-> 0, flid |-> 0]
NilMeta == TornMeta

\* A freelist page as it lies in the file.
FlPage(ids) == [valid |-> TRUE, ids |-> ids]
TornFlPage == [valid |-> FALSE, ids |-> {}]

\* ------------------------------------------------------------------ page.go
branchPageFlag == 1
leafPageFlag == 2
metaPageFlag == 4
freelistPageFlag == 16

\* flags & bit != 0 for a single bit.
hasFlag(flags, bit) == (flags \div bit) % 2 = 1

\* fastCheckBits: the table of 0x11 entries, true at the four page flags.
fastCheckBits ==
    [i \in 0..freelistPageFlag |->
        i \in {branchPageFlag, leafPageFlag, metaPageFlag, freelistPageFlag}]

\* page.typ(): the flags are tested in the order branch, leaf, meta,
\* freelist; anything else is printed as unknown<xx>.
typ(flags) ==
    IF hasFlag(flags, branchPageFlag) THEN [kind |-> "branch"]
    ELSE IF hasFlag(flags, leafPageFlag) THEN [kind |-> "leaf"]
    ELSE IF hasFlag(flags, metaPageFlag) THEN [kind |-> "meta"]
    ELSE IF hasFlag(flags, freelistPageFlag) THEN [kind |-> "freelist"]
    ELSE [kind |-> "unknown", hex |-> flags]

\* A page header.
Page(id, flags, count, overflow) ==
    [id |-> id, flags |-> flags, count |-> count, overflow |-> overflow]

\* page.fastCheck without the comparison of the id.
fastCheck_flagsOnly(p, id) ==
    IF p.flags > freelistPageFlag \/ ~fastCheckBits[p.flags] THEN "panic"
    ELSE "ok"

\* page.fastCheck(id): "ok" if it returns, "panic" if it panics.  The id is
\* compared first; the flags must be at most freelistPageFlag and set in
\* fastCheckBits.
fastCheck(p, id) ==
    IF p.id # id THEN "panic"
    ELSE IF p.flags > freelistPageFlag \/ ~fastCheckBits[p.flags] THEN "panic"
    ELSE "ok"

\* --------------------------------------------------- leafPageElement
\* A uint64 is held as its 64 bits, bit 0 the lowest: the word is wider than
\* the integers at hand.
Bits64 == 0..63
\* uint64(n) of an n in 0..2^31-1.
uint64(n) == [i \in Bits64 |-> IF i < 31 THEN (n \div 2^i) % 2 ELSE 0]
\* x << k and x >> k on uint64: the bits shifted out are lost.
shl(x, k) == [i \in Bits64 |-> IF i >= k THEN x[i - k] ELSE 0]
shr(x, k) == [i \in Bits64 |-> IF i + k <= 63 THEN x[i + k] ELSE 0]
\* x | y.
bitOr(x, y) == [i \in Bits64 |-> IF x[i] = 1 \/ y[i] = 1 THEN 1 ELSE 0]
\* uint32(x) & mask for a mask below 2^31, as a number; uint32 keeps the
\* bits 0..31.
RECURSIVE maskedFrom(_, _, _)
maskedFrom(x, mask, i) ==
    IF i > 30 THEN 0
    ELSE x[i] * ((mask \div 2^i) % 2) * 2^i + maskedFrom(x, mask, i + 1)
uint32And(x, mask) == maskedFrom(x, mask, 0)

\* The masks of pos(), ksize() and vsize(): 0x3FFFFFF, 0x1FFF, 0xFFFFFF.
posMask == 67108863
ksizeMask == 8191
vsizeMask == 16777215

\* leafPageElement.flags(), pos(), ksize(), vsize() of the word data.
\* flags() has no mask: uint32(data >> 63) is the one bit left, read here
\* through the mask of all 31 low bits.
leaf_flags(data) == uint32And(shr(data, 63), 2147483647)
leaf_pos(data) == uint32And(shr(data, 37), posMask)
leaf_ksize(data) == uint32And(shr(data, 24), ksizeMask)
leaf_vsize(data) == uint32And(data, vsizeMask)

\* leafPageElement.fill with ksize shifted by 23, one bit too low.
leaf_fill_shift23(flags, pos, ksize, vsize) ==
    IF pos > posMask THEN [panic |-> TRUE, data |-> uint64(0)]
    ELSE [panic |-> FALSE,
          data |-> bitOr(bitOr(shl(uint64(flags), 63), shl(uint64(pos), 37)),
                         bitOr(shl(uint64(ksize), 23), uint64(vsize)))]

\* leafPageElement.fill: only pos is asserted; the four fields are shifted
\* and ored into the word.
leaf_fill(flags, pos, ksize, vsize) ==
    IF pos > posMask THEN [panic |-> TRUE, data |-> uint64(0)]
    ELSE [panic |-> FALSE,
          data |-> bitOr(bitOr(shl(uint64(flags), 63), shl(uint64(pos), 37)),
                         bitOr(shl(uint64(ksize), 24), uint64(vsize)))]

\* ------------------------------------------------------------- pgids
\* sort.Search(n, f) for f(i) = lead[i] > x: the binary search of the
\* library, on the indices i..j-1 (from 0); lead[h + 1] is Go's lead[h].
RECURSIVE sortSearch(_, _, _, _)
sortSearch(lead, x, i, j) ==
    IF i >= j THEN i
    ELSE LET h == (i + j) \div 2
         IN  IF ~(lead[h + 1] > x) THEN sortSearch(lead, x, h + 1, j)
             ELSE sortSearch(lead, x, i, h)

\* s[n:] and s[:n].
from(s, n) == SubSeq(s, n + 1, Len(s))
upTo(s, n) == SubSeq(s, 1, n)

RECURSIVE mergeLoop(_, _, _)
\* The loop of mergepgids without the append of what is left in follow.
mergeLoop_noTail(merged, lead, follow) ==
    IF Len(lead) > 0
    THEN LET n == sortSearch(lead, follow[1], 0, Len(lead))
         IN  IF n >= Len(lead) THEN merged \o upTo(lead, n)
             ELSE mergeLoop(merged \o upTo(lead, n), follow, from(lead, n))
    ELSE merged

\* The loop of mergepgids and the append after it: the longest prefix of
\* lead that is not above follow[0] is appended, then lead and follow swap;
\* what is left in follow is appended at the end.
mergeLoop(merged, lead, follow) ==
    IF Len(lead) > 0
    THEN LET n == sortSearch(lead, follow[1], 0, Len(lead))
         IN  IF n >= Len(lead) THEN merged \o upTo(lead, n) \o follow
             ELSE mergeLoop(merged \o upTo(lead, n), follow, from(lead, n))
    ELSE merged \o follow

\* copy(dst, src) and the appends into dst[:0]: the head of dst is
\* overwritten, the rest stays.
overwrite(dst, src) ==
    [i \in 1..Len(dst) |-> IF i <= Len(src) THEN src[i] ELSE dst[i]]

\* mergepgids(dst, a, b): panics if dst is shorter than a and b together.
mergepgids(dst, a, b) ==
    IF Len(dst) < Len(a) + Len(b) THEN [panic |-> TRUE, dst |-> dst]
    ELSE IF Len(a) = 0 THEN [panic |-> FALSE, dst |-> overwrite(dst, b)]
    ELSE IF Len(b) = 0 THEN [panic |-> FALSE, dst |-> overwrite(dst, a)]
    ELSE LET lead == IF b[1] < a[1] THEN b ELSE a
             follow == IF b[1] < a[1] THEN a ELSE b
         IN  [panic |-> FALSE,
              dst |-> overwrite(dst, mergeLoop(<<>>, lead, follow))]

\* make(pgids, n): n zeros.
make(n) == [i \in 1..n |-> 0]

\* pgids.merge: the other slice if one is empty, else mergepgids into a new
\* slice of len(a)+len(b).
merge(a, b) ==
    IF Len(a) = 0 THEN b
    ELSE IF Len(b) = 0 THEN a
    ELSE mergepgids(make(Len(a) + Len(b)), a, b).dst

\* --------------------------------------------------------------- DB (db.go)
\* DB.meta() over given meta pages: the valid one with the higher txid.
metaOf(slots) ==
    LET a == IF slots[1].txid > slots[0].txid THEN slots[1] ELSE slots[0]
        b == IF slots[1].txid > slots[0].txid THEN slots[0] ELSE slots[1]
    IN  IF a.valid THEN a ELSE b

\* DB.meta() now.
dbMeta == metaOf(metaSlot)

\* meta.write(p): the meta page's id, the slot it is written to.
metaPageId(m) == m.txid % 2

\* DB.freelistPage() over a given file: the freelist page the committed meta
\* names.
freelistPageOf(slots, regions) == regions[metaOf(slots).flid % 2]

\* ------------------------------------------------------ freelist (freelist.go)
\* db.freelist: loaded is FALSE for the nil freelist of a database opened
\* read-only without PreLoadFreelist.
EmptyFreelist ==
    [ids |-> {}, pending |-> [i \in Txids |-> {}], allocs |-> {}, loaded |-> TRUE]
NilFreelist == [EmptyFreelist EXCEPT !.loaded = FALSE]

allPending(f) == UNION {f.pending[i] : i \in Txids}

\* freelist.freed(id): the page is free or pending.
freelist_freed(f, id) == id \in f.ids \cup allPending(f)

\* freelist.free_count(), pending_count(), size().
free_count(f) == Cardinality(f.ids)
pending_count(f) == Cardinality(allPending(f))
freelist_size(f) == pageHeaderSize + pgidSize * (free_count(f) + pending_count(f))

\* len(f.pending): the transactions with pages pending.
pending_len(f) == Cardinality({i \in Txids : f.pending[i] # {}})

\* freelist.free(txid, p): the page waits in pending[txid].
freelist_free(f, txid, id) == [f EXCEPT !.pending[txid] = @ \cup {id}]

\* freelist.allocate(txid, 1): a free page id, or 0 when there is none.
Min(S) == CHOOSE x \in S : \A y \in S : x <= y
freelist_allocate_id(f) == IF f.ids = {} THEN 0 ELSE Min(f.ids)
freelist_allocate(f, txid) ==
    IF f.ids = {} THEN f
    ELSE [f EXCEPT !.ids = @ \ {Min(f.ids)}, !.allocs = @ \cup {Min(f.ids)}]

\* freelist.release(upto): pending pages of transactions <= upto become free.
freelist_release(f, upto) ==
    [f EXCEPT !.ids = @ \cup UNION {f.pending[i] : i \in {j \in Txids : j <= upto}},
              !.pending = [i \in Txids |-> IF i <= upto THEN {} ELSE f.pending[i]]]

\* freelist.rollback(txid): the in-memory state is reverted for this txid.
freelist_rollback(f, txid) ==
    [f EXCEPT !.ids = @ \cup f.allocs,
              !.pending[txid] = {},
              !.allocs = {}]

\* freelist.reload(p): the ids of the page, less the pages still pending.
freelist_reload(f, p) ==
    [f EXCEPT !.ids = p.ids \ allPending(f)]

\* freelist.write(p): every free and every pending id goes into the page.
freelist_write(f) == FlPage(f.ids \cup allPending(f))

\* ------------------------------------------------------------------- Tx
NewTx == [writable |-> FALSE, db |-> FALSE, meta |-> NilMeta, root |-> 0,
          pages |-> {}, handlers |-> 0]

NoLoc == [opgid |-> 0, err |-> "nil", queue |-> <<>>, flpid |-> 0,
          overflow |-> 0, flbuf |-> TornFlPage]

\* History of a transaction: when it began, DB.meta(), the meta of the last
\* Commit that had returned nil, and whether a Commit stood between its meta
\* write and its return; the rollback its Commit made and for which error;
\* whether its Commit got to return nil; how often it unlocked db.rwlock and
\* how often it merged its statistics; the pages write() wrote, the dirty
\* pages it had, and what became of write()'s sync; the freelist figures
\* close() took before the unlock, and len(freelist.pending) at the unlock.
NoHist == [committed |-> NilMeta, okAtBegin |-> NilMeta, midCommit |-> FALSE,
           rollback |-> "none", failed |-> "nil", ok |-> FALSE, unlocks |-> 0,
           merges |-> 0, written |-> <<>>, dirty |-> {}, sync |-> "none",
           freelistFreeN |-> 0, freelistPendingN |-> 0, freelistAlloc |-> 0,
           pendingAtUnlock |-> 0]

\* The history a transaction starts with.
BeginHist ==
    [NoHist EXCEPT !.committed = dbMeta, !.okAtBegin = okMeta,
                   !.midCommit = \E u \in Txs : pc[u] = "metasync"]

\* What is kept of a transaction's history once its call has returned.
Kept(h) == [NoHist EXCEPT !.ok = h.ok, !.unlocks = h.unlocks, !.merges = h.merges]

\* A call that returns: the transaction, the call, the value returned, and
\* from the transaction's history what the properties below ask about.
NoCall == [tx |-> NoTx, op |-> "none", ret |-> "none", rollback |-> "none",
           failed |-> "nil", committed |-> NilMeta, okAtBegin |-> NilMeta]
Returned(t, o, r) ==
    [tx |-> t, op |-> o, ret |-> r, rollback |-> hist[t].rollback,
     failed |-> hist[t].failed, committed |-> hist[t].committed,
     okAtBegin |-> hist[t].okAtBegin]

\* A call that reads the transaction and returns: whether the transaction
\* was closed when it was called, how the call ended and the value it gave.
Answered(t, o, out) ==
    [tx |-> t, op |-> o, closed |-> ~tx[t].db, ret |-> out.ret, val |-> out.val]

\* Tx.init without the increment of txid.
tx_init_sameTxid(w, m) ==
    [writable |-> w, db |-> TRUE,
     meta |-> IF w THEN [m EXCEPT !.flid = @ + 1] ELSE m,
     root |-> m.root, pages |-> {}, handlers |-> 0]

\* Tx.init: the meta is copied by value; a writable transaction gets a page
\* cache and the next txid and flid.
tx_init(w, m) ==
    [writable |-> w, db |-> TRUE,
     meta |-> IF w THEN [m EXCEPT !.txid = @ + 1, !.flid = @ + 1] ELSE m,
     root |-> m.root, pages |-> {}, handlers |-> 0]

\* Tx.ID, Tx.Size, Tx.Writable of an open transaction.
tx_ID(t) == tx[t].meta.txid
tx_Size(t) == tx[t].meta.pgid * pageSize
tx_Writable(t) == tx[t].writable

\* What a call of an accessor comes to.  ID and Size read through tx.meta
\* without a test of tx.db: on a closed transaction tx.meta is nil and the
\* read is a nil pointer dereference, a run-time panic.  Writable and Stats
\* read fields close() leaves alone.
tx_ID_outcome(t) ==
    IF tx[t].meta = NilMeta THEN [ret |-> "nilDereference", val |-> 0]
    ELSE [ret |-> "value", val |-> tx_ID(t)]
tx_Size_outcome(t) ==
    IF tx[t].meta = NilMeta THEN [ret |-> "nilDereference", val |-> 0]
    ELSE [ret |-> "value", val |-> tx_Size(t)]
tx_Writable_outcome(t) == [ret |-> "value", val |-> tx_Writable(t)]
tx_Stats_outcome(t) == [ret |-> "value", val |-> "stats"]

\* The sync test with the flags the other way round: !IgnoreNoSync || NoSync.
syncWanted_swapped(noSync, ignoreNoSync) == ~ignoreNoSync \/ noSync

\* !tx.db.NoSync || IgnoreNoSync: write() and writeMeta() sync the file.
syncWanted(noSync, ignoreNoSync) == ~noSync \/ ignoreNoSync

\* Tx.rollback without freelist.rollback: the reload alone.
tx_rollback_reloadOnly(f, txid, mapped, page) ==
    IF mapped THEN freelist_reload(f, page) ELSE f

\* Tx.rollback on a writable transaction: the freelist is reverted for the
\* txid and then, when the mapping is there, reloaded from the freelist page.
tx_rollback(f, txid, mapped, page) ==
    LET f1 == freelist_rollback(f, txid)
    IN  IF mapped THEN freelist_reload(f1, page) ELSE f1

\* Tx.nonPhysicalRollback without freelist.rollback.
tx_nonPhysicalRollback_noRevert(w, f, txid) == f

\* Tx.nonPhysicalRollback: the freelist is reverted for the txid if the
\* transaction is writable; nothing is reloaded.
tx_nonPhysicalRollback(w, f, txid) == IF w THEN freelist_rollback(f, txid) ELSE f

\* Tx.close unlocking db.rwlock for a read-only transaction as well.
close_rwlock_any(w, held) == FALSE

\* Tx.close, the lock: a writable transaction unlocks db.rwlock, a read-only
\* one leaves it as it is.
close_rwlock(w, held) == IF w THEN FALSE ELSE held

\* Tx.close leaving tx.db as it is.
tx_cleared_keepDb(r) == [r EXCEPT !.meta = NilMeta, !.root = 0, !.pages = {}]

\* Tx.close, the references: db, meta, root and pages are cleared.
tx_cleared(r) == [r EXCEPT !.db = FALSE, !.meta = NilMeta, !.root = 0, !.pages = {}]

\* ------------------------------------------------------------------ Init
InitRoot == firstDataPage
InitMetaAt(txid, hwm) == Meta(txid, InitRoot, hwm, 0)
InitMeta(txid) == InitMetaAt(txid, InitRoot + 1)

\* A database as db.init() lays it out: two metas with txid 0 and 1, the
\* empty freelist in region 0.
InitCall(f, hwm, l) ==
    /\ metaSlot = [i \in 0..1 |-> InitMetaAt(i, hwm)]
    /\ flRegion = [i \in 0..1 |-> IF i = 0 THEN FlPage({}) ELSE TornFlPage]
    /\ dataOK = TRUE
    /\ rwlock = FALSE
    /\ rwtx = NoTx
    /\ txs = {}
    /\ freelist = f
    /\ tx = [t \in Txs |-> NewTx]
    /\ pc = [t \in Txs |-> "new"]
    /\ op = [t \in Txs |-> "none"]
    /\ last = l
    /\ loc = [t \in Txs |-> NoLoc]
    /\ invoked = [t \in Txs |-> <<>>]
    /\ okMeta = InitMetaAt(InitTxid, hwm)
    /\ hist = [t \in Txs |-> NoHist]

InitDB(f, hwm) == InitCall(f, hwm, NoCall)
InitWith(f) == InitDB(f, InitRoot + 1)

\* The database opened read-write: the freelist is loaded.
Init == InitWith(EmptyFreelist)

\* The database opened either read-write or read-only without
\* PreLoadFreelist.
InitAnyMode == \E f \in {EmptyFreelist, NilFreelist} : InitWith(f)

\* The pages of the child buckets, after the root's page.
bucketPages == (InitRoot + 1)..(InitRoot + MaxBucketPages)

\* A database that holds the child buckets, opened read-write: nothing is
\* free, the high-water mark is past the buckets' pages.
InitBuckets == InitDB(EmptyFreelist, InitRoot + MaxBucketPages + 1)

\* ------------------------------------------------------- DB.Begin (db.go)
\* db.freePages(): pending pages older than every open reader are released.
minReaderTxid == IF txs = {} THEN MaxTxid + 1
                 ELSE Min({tx[r].meta.txid : r \in txs})
freePages(f) ==
    LET g == [f EXCEPT !.allocs = {}]
    IN  IF minReaderTxid > 0 THEN freelist_release(g, minReaderTxid - 1) ELSE g

\* DB.Begin(true): takes db.rwlock, initialises the transaction, sets db.rwtx
\* and releases pending pages.  A database opened read-only refuses it.
BeginRW(t) ==
    /\ pc[t] = "new"
    /\ t > 1 => pc[t - 1] # "new"
    /\ dataOK /\ dbMeta.valid
    /\ freelist.loaded
    /\ ~rwlock
    /\ rwlock' = TRUE
    /\ rwtx' = t
    /\ tx' = [tx EXCEPT ![t] = tx_init(TRUE, dbMeta)]
    /\ freelist' = freePages(freelist)
    /\ pc' = [pc EXCEPT ![t] = "idle"]
    /\ hist' = [hist EXCEPT ![t] = BeginHist]
    /\ UNCHANGED <<file, dataOK, txs, op, loc, invoked, okMeta>>
    /\ last' = NoCall

\* DB.Begin(false): initialises the transaction and registers it in db.txs.
BeginRO(t) ==
    /\ pc[t] = "new"
    /\ t > 1 => pc[t - 1] # "new"
    /\ dataOK /\ dbMeta.valid
    /\ tx' = [tx EXCEPT ![t] = tx_init(FALSE, dbMeta)]
    /\ txs' = txs \cup {t}
    /\ pc' = [pc EXCEPT ![t] = "idle"]
    /\ hist' = [hist EXCEPT ![t] = BeginHist]
    /\ UNCHANGED <<file, dataOK, rwlock, rwtx, freelist, op, loc, invoked, okMeta>>
    /\ last' = NoCall

\* Tx.OnCommit: appends the handler, whatever the transaction's state.
OnCommit(t) ==
    /\ pc[t] = "idle"
    /\ t = HandlerTx
    /\ tx[t].handlers < MaxHandlers
    /\ tx' = [tx EXCEPT ![t].handlers = @ + 1]
    /\ UNCHANGED <<file, dataOK, rwlock, rwtx, txs, freelist, pc, op, loc, invoked,
                   okMeta, hist>>
    /\ last' = NoCall

\* Tx.ID, Tx.Size, Tx.Writable, Tx.Stats called by the client between two
\* other calls: nothing is written.
IDCall(t) ==
    /\ pc[t] = "idle"
    /\ last' = Answered(t, "ID", tx_ID_outcome(t))
    /\ UNCHANGED <<file, dataOK, rwlock, rwtx, txs, freelist, tx, pc, op, loc,
                   invoked, okMeta, hist>>

SizeCall(t) ==
    /\ pc[t] = "idle"
    /\ last' = Answered(t, "Size", tx_Size_outcome(t))
    /\ UNCHANGED <<file, dataOK, rwlock, rwtx, txs, freelist, tx, pc, op, loc,
                   invoked, okMeta, hist>>

WritableCall(t) ==
    /\ pc[t] = "idle"
    /\ last' = Answered(t, "Writable", tx_Writable_outcome(t))
    /\ UNCHANGED <<file, dataOK, rwlock, rwtx, txs, freelist, tx, pc, op, loc,
                   invoked, okMeta, hist>>

StatsCall(t) ==
    /\ pc[t] = "idle"
    /\ last' = Answered(t, "Stats", tx_Stats_outcome(t))
    /\ UNCHANGED <<file, dataOK, rwlock, rwtx, txs, freelist, tx, pc, op, loc,
                   invoked, okMeta, hist>>

\* ------------------------------------------------------------ Tx.Commit
\* The tests at the head of Commit with the writable test first.
commitRefusal_writableFirst(r) ==
    IF ~r.writable THEN "ErrTxNotWritable"
    ELSE IF ~r.db THEN "ErrTxClosed"
    ELSE "none"

\* The tests at the head of Commit: tx.db == nil, then !tx.writable.
commitRefusal(r) ==
    IF ~r.db THEN "ErrTxClosed"
    ELSE IF ~r.writable THEN "ErrTxNotWritable"
    ELSE "none"

\* Commit on a closed transaction: the error is returned and nothing else
\* happens.
CommitClosed(t) ==
    /\ pc[t] = "idle" /\ ~tx[t].db
    /\ last' = Returned(t, "Commit", commitRefusal(tx[t]))
    /\ UNCHANGED <<file, dataOK, rwlock, rwtx, txs, freelist, tx, pc, op, loc,
                   invoked, okMeta, hist>>

\* Commit on an open read-only transaction: the error, and it stays open.
CommitNotWritable(t) ==
    /\ pc[t] = "idle" /\ tx[t].db /\ ~tx[t].writable
    /\ last' = Returned(t, "Commit", commitRefusal(tx[t]))
    /\ UNCHANGED <<file, dataOK, rwlock, rwtx, txs, freelist, tx, pc, op, loc,
                   invoked, okMeta, hist>>

\* tx.close() of a writable transaction up to rwlock.Unlock(): the freelist
\* figures are taken, db.rwtx is given up and the writer lock released.  h is
\* the transaction's history so far, f the freelist as the caller leaves it.
CloseUnlock(t, h, f) ==
    /\ rwtx' = NoTx
    /\ rwlock' = close_rwlock(TRUE, rwlock)
    /\ hist' = [hist EXCEPT ![t] =
                   [h EXCEPT !.unlocks = @ + 1,
                             !.freelistFreeN = free_count(f),
                             !.freelistPendingN = pending_count(f),
                             !.freelistAlloc = freelist_size(f),
                             !.pendingAtUnlock = pending_len(f)]]
    /\ pc' = [pc EXCEPT ![t] = "close"]

\* A failure inside Commit: tx.rollback() on the freelist f and the file as
\* the failed step left them, then tx.close() up to the unlock.  Commit
\* returns e once close() is done.
RollbackAndClose(t, e, f, slots, regions, mapped) ==
    /\ freelist' = tx_rollback(f, tx[t].meta.txid, mapped,
                               freelistPageOf(slots, regions))
    /\ loc' = [loc EXCEPT ![t].err = e]
    /\ CloseUnlock(t, [hist[t] EXCEPT !.rollback = "physical", !.failed = e],
                   tx_rollback(f, tx[t].meta.txid, mapped,
                               freelistPageOf(slots, regions)))

\* Commit on an open writable transaction, up to the end of spill.
\* tx.root.spill() (bucket.go, node.go): with dirty nodes the root is
\* rewritten: its old page is freed, a page is allocated from the freelist or
\* past the high-water mark (which may remap the file and fail there) and
\* becomes the root.  stage is how far spill got: 0 nothing is dirty or the
\* error came first, 1 the old page is freed, 2 the new page is in place.
CommitSpill(t) ==
    /\ pc[t] = "idle" /\ tx[t].db /\ tx[t].writable
    /\ op' = [op EXCEPT ![t] = "Commit"]
    /\ \E stage \in 0..2, ok \in BOOLEAN, mapped \in BOOLEAN :
        LET txid == tx[t].meta.txid
            f1 == IF stage >= 1 THEN freelist_free(freelist, txid, tx[t].root)
                  ELSE freelist
            fromList == f1.ids # {}
            id == IF fromList THEN freelist_allocate_id(f1) ELSE tx[t].meta.pgid
            f2 == IF stage = 2 THEN freelist_allocate(f1, txid) ELSE f1
            t2 == IF stage = 2
                  THEN [tx[t] EXCEPT !.root = id, !.pages = @ \cup {id},
                                     !.meta.pgid = IF fromList THEN @ ELSE @ + 1]
                  ELSE tx[t]
        IN  /\ ok => stage # 1
            \* only the remap of db.allocate loses the mapping
            /\ ~mapped => (~ok /\ stage = 1 /\ ~fromList)
            /\ dataOK' = mapped
            /\ IF ok
               THEN \* tx.meta.root.root = tx.root.root
                    /\ tx' = [tx EXCEPT ![t] = [t2 EXCEPT !.meta.root = t2.root]]
                    /\ freelist' = f2
                    /\ loc' = [loc EXCEPT ![t] = [NoLoc EXCEPT !.opgid = tx[t].meta.pgid]]
                    /\ pc' = [pc EXCEPT ![t] = "freelist"]
                    /\ UNCHANGED <<rwlock, rwtx, hist>>
               ELSE /\ tx' = [tx EXCEPT ![t] = t2]
                    /\ RollbackAndClose(t, "spillErr", f2, metaSlot, flRegion, mapped)
    /\ UNCHANGED <<file, txs, invoked, okMeta>>
    /\ last' = NoCall

\* The size guard of commitFreelist, for a page size ps and a region size rs.
freelistFitsAt(size, ps, rs) == size < rs - ps

\* The size guard of commitFreelist with <= for <.
freelistFits_orEqual(f) == freelist_size(f) <= freelistRegionSize - pageSize

\* The size guard of commitFreelist on the freelist of the database.
freelistFits(f) == freelistFitsAt(freelist_size(f), pageSize, freelistRegionSize)

\* The number of pages commitFreelist gives the freelist page, for a page
\* size ps.
freelistPagesAt(size, ps) == IF size < ps THEN 1 ELSE size \div ps + 1

\* The same with db.pageSize.
freelistPages(size) == freelistPagesAt(size, pageSize)

\* commitFreelist going to tx.close() with the error of freelist.write, not
\* to tx.rollback().
CommitFreelistFail_noRollback(t) ==
    /\ loc' = [loc EXCEPT ![t].err = "freelistErr"]
    /\ CloseUnlock(t, [hist[t] EXCEPT !.failed = "freelistErr"], freelist)
    /\ UNCHANGED freelist

\* commitFreelist, freelist.write failed: rollback and the error.
CommitFreelistFail(t) ==
    RollbackAndClose(t, "freelistErr", freelist, metaSlot, flRegion, dataOK)

\* Tx.commitFreelist: the guard is fatal; the page is filled and registered
\* in tx.pages under the page id of the region flid selects.
CommitFreelist(t) ==
    /\ pc[t] = "freelist"
    /\ IF ~freelistFits(freelist)
       THEN /\ pc' = [pc EXCEPT ![t] = "panicked"]
            /\ UNCHANGED <<tx, freelist, rwlock, rwtx, loc, hist>>
       ELSE \E ok \in BOOLEAN :
            IF ok
            THEN /\ loc' = [loc EXCEPT
                       ![t].flpid = freelistPageId(tx[t].meta.flid),
                       ![t].overflow = freelistPages(freelist_size(freelist)) - 1,
                       ![t].flbuf = freelist_write(freelist)]
                 /\ tx' = [tx EXCEPT ![t].pages =
                               @ \cup {freelistPageId(tx[t].meta.flid)}]
                 /\ pc' = [pc EXCEPT ![t] = "grow"]
                 /\ UNCHANGED <<freelist, rwlock, rwtx, hist>>
            ELSE /\ CommitFreelistFail(t)
                 /\ UNCHANGED tx
    /\ UNCHANGED <<file, dataOK, txs, op, invoked, okMeta>>
    /\ last' = NoCall

\* sort.Sort(pages): the dirty pages in ascending page id.
RECURSIVE sorted(_)
sorted(S) == IF S = {} THEN <<>> ELSE <<Min(S)>> \o sorted(S \ {Min(S)})

\* Commit: if the high-water mark moved, db.grow, which may fail.  Then
\* write() collects and sorts the dirty pages and empties tx.pages.
Grow(t) ==
    /\ pc[t] = "grow"
    /\ \E ok \in BOOLEAN :
        /\ ~ok => tx[t].meta.pgid > loc[t].opgid
        /\ IF ok
           THEN /\ loc' = [loc EXCEPT ![t].queue = sorted(tx[t].pages)]
                /\ tx' = [tx EXCEPT ![t].pages = {}]
                /\ hist' = [hist EXCEPT ![t].dirty = tx[t].pages]
                /\ pc' = [pc EXCEPT ![t] = "write"]
                /\ UNCHANGED <<freelist, rwlock, rwtx>>
           ELSE /\ RollbackAndClose(t, "growErr", freelist, metaSlot, flRegion, dataOK)
                /\ UNCHANGED tx
    /\ UNCHANGED <<file, dataOK, txs, op, invoked, okMeta>>
    /\ last' = NoCall

\* -------------------------------------------------------------- Tx.write
\* The region a freelist page id lies in.
regionOf(id) == (id - 2) \div (freelistRegionSize \div pageSize)

\* write(): one page is written with writeAt.  A failed write leaves the
\* page in the file as it was, or torn.
WritePage(t) ==
    /\ pc[t] = "write"
    /\ loc[t].queue # <<>>
    /\ LET id == Head(loc[t].queue)
           isFl == id = loc[t].flpid
       IN \E ok \in BOOLEAN, torn \in BOOLEAN :
           /\ torn => (~ok /\ isFl)
           /\ flRegion' = IF ~isFl THEN flRegion
                          ELSE IF ok THEN [flRegion EXCEPT ![regionOf(id)] = loc[t].flbuf]
                          ELSE IF torn THEN [flRegion EXCEPT ![regionOf(id)] = TornFlPage]
                          ELSE flRegion
           /\ IF ok
              THEN /\ loc' = [loc EXCEPT ![t].queue = Tail(@)]
                   /\ hist' = [hist EXCEPT ![t].written = Append(@, id)]
                   /\ UNCHANGED <<pc, freelist, rwlock, rwtx>>
              ELSE RollbackAndClose(t, "writeErr", freelist, metaSlot, flRegion', dataOK)
    /\ UNCHANGED <<metaSlot, dataOK, txs, tx, op, invoked, okMeta>>
    /\ last' = NoCall

\* What the flags say of a sync that is left out: "skipped" when NoSync is
\* set and IgnoreNoSync is not, "missing" otherwise.
syncLeftOut(noSync, ignoreNoSync) ==
    IF noSync /\ ~ignoreNoSync THEN "skipped" ELSE "missing"

\* Where Commit goes once write() has returned nil.
afterWrite(strictMode) == IF strictMode THEN "check" ELSE "meta"

\* write() once every page is written: db.NoSync and IgnoreNoSync are read
\* and the file is synced with fdatasync, which may fail, unless that is
\* skipped; back in Commit db.StrictMode is read.
WriteSync(t) ==
    /\ pc[t] = "write"
    /\ loc[t].queue = <<>>
    /\ \E noSync \in BOOLEAN, ignoreNoSync \in BOOLEAN, strictMode \in BOOLEAN,
          ok \in BOOLEAN :
        /\ ~syncWanted(noSync, ignoreNoSync) => ok
        /\ IF ok
           THEN /\ hist' = [hist EXCEPT ![t].sync =
                               IF syncWanted(noSync, ignoreNoSync) THEN "done"
                               ELSE syncLeftOut(noSync, ignoreNoSync)]
                /\ pc' = [pc EXCEPT ![t] = afterWrite(strictMode)]
                /\ UNCHANGED <<freelist, rwlock, rwtx, loc>>
           ELSE RollbackAndClose(t, "syncErr", freelist, metaSlot, flRegion, dataOK)
    /\ UNCHANGED <<file, dataOK, txs, tx, op, invoked, okMeta>>
    /\ last' = NoCall

\* Commit in strict mode: tx.Check(); an inconsistency is a panic.
StrictCheck(t) ==
    /\ pc[t] = "check"
    /\ \E ok \in BOOLEAN : pc' = [pc EXCEPT ![t] = IF ok THEN "meta" ELSE "panicked"]
    /\ UNCHANGED <<file, dataOK, rwlock, rwtx, txs, freelist, tx, op, loc, invoked,
                   okMeta, hist>>
    /\ last' = NoCall

\* ---------------------------------------------------------- Tx.writeMeta
\* writeMeta has returned nil: Commit will return nil, and goes into
\* tx.close().
CommitSucceeds(t) ==
    /\ okMeta' = tx[t].meta
    /\ CloseUnlock(t, [hist[t] EXCEPT !.ok = TRUE], freelist)
    /\ UNCHANGED <<freelist, loc>>

\* writeMeta: the meta page is written with writeAt at its page id.  A
\* failed write leaves the page as it was, or torn.  After a write that
\* succeeded db.NoSync and IgnoreNoSync are read.
WriteMeta(t) ==
    /\ pc[t] = "meta"
    /\ LET id == metaPageId(tx[t].meta)
       IN \E ok \in BOOLEAN, left \in {"whole", "torn", "asbefore"},
             noSync \in BOOLEAN, ignoreNoSync \in BOOLEAN :
           /\ ok <=> left = "whole"
           /\ ~ok => (noSync /\ ignoreNoSync)   \* not read when writeAt failed
           /\ metaSlot' = IF left = "whole" THEN [metaSlot EXCEPT ![id] = tx[t].meta]
                          ELSE IF left = "torn" THEN [metaSlot EXCEPT ![id] = TornMeta]
                          ELSE metaSlot
           /\ IF ~ok
              THEN /\ RollbackAndClose(t, "metaWriteErr", freelist, metaSlot', flRegion,
                                       dataOK)
                   /\ UNCHANGED okMeta
              ELSE IF syncWanted(noSync, ignoreNoSync)
              THEN /\ pc' = [pc EXCEPT ![t] = "metasync"]
                   /\ UNCHANGED <<freelist, rwlock, rwtx, loc, hist, okMeta>>
              ELSE CommitSucceeds(t)
    /\ UNCHANGED <<flRegion, dataOK, txs, tx, op, invoked>>
    /\ last' = NoCall

\* writeMeta: fdatasync, which may fail.
MetaSync(t) ==
    /\ pc[t] = "metasync"
    /\ \E ok \in BOOLEAN :
        IF ok
        THEN CommitSucceeds(t)
        ELSE /\ RollbackAndClose(t, "metaSyncErr", freelist, metaSlot, flRegion, dataOK)
             /\ UNCHANGED okMeta
    /\ UNCHANGED <<file, dataOK, txs, tx, op, invoked>>
    /\ last' = NoCall

\* -------------------------------------------------------------- Tx.close
\* Commit running the handlers after close() whatever the outcome.
afterClose_always(o, e) == IF o = "Commit" THEN "handlers" ELSE "idle"

\* Where the thread goes when close() is over: a Commit that succeeded runs
\* the handlers, anything else returns.
afterClose(o, e) == IF o = "Commit" /\ e = "nil" THEN "handlers" ELSE "idle"

\* Tx.close, the statistics given to db.stats under statlock: the figures
\* taken before the unlock, and len(tx.db.freelist.pending) of the freelist f
\* as it is now.
close_stats(h, f) ==
    [FreePageN |-> h.freelistFreeN, PendingPageN |-> h.freelistPendingN,
     PendingN |-> pending_len(f),
     FreeAlloc |-> (h.freelistFreeN + h.freelistPendingN) * pageSize,
     FreelistInuse |-> h.freelistAlloc]

\* The step that ends close(): the call r that returns with it, if one does,
\* the transaction, db.stats as close() set it, and len(freelist.pending)
\* as it was at the unlock.
Closed(t, r, s, n) ==
    [tx |-> t, op |-> r.op, ret |-> r.ret, rollback |-> r.rollback,
     failed |-> r.failed, committed |-> r.committed, okAtBegin |-> r.okAtBegin,
     closing |-> TRUE, stats |-> s, pendingAtUnlock |-> n]

\* tx.close() of a writable transaction after the unlock: the statistics are
\* merged and the references cleared; then the caller goes on.
CloseFinish(t) ==
    /\ pc[t] = "close"
    /\ tx' = [tx EXCEPT ![t] = tx_cleared(@)]
    /\ pc' = [pc EXCEPT ![t] = afterClose(op[t], loc[t].err)]
    /\ IF afterClose(op[t], loc[t].err) = "idle"
       THEN /\ last' = Closed(t, Returned(t, op[t], loc[t].err),
                              close_stats(hist[t], freelist),
                              hist[t].pendingAtUnlock)
            /\ op' = [op EXCEPT ![t] = "none"]
            /\ loc' = [loc EXCEPT ![t] = NoLoc]
            /\ hist' = [hist EXCEPT ![t] = Kept([@ EXCEPT !.merges = @ + 1])]
       ELSE /\ last' = Closed(t, NoCall, close_stats(hist[t], freelist),
                              hist[t].pendingAtUnlock)
            /\ hist' = [hist EXCEPT ![t].merges = @ + 1]
            /\ UNCHANGED <<op, loc>>
    /\ UNCHANGED <<file, dataOK, rwlock, rwtx, txs, freelist, invoked, okMeta>>

\* Commit: for _, fn := range tx.commitHandlers { fn() }, one handler a step.
RunHandler(t) ==
    /\ pc[t] = "handlers"
    /\ Len(invoked[t]) < tx[t].handlers
    /\ invoked' = [invoked EXCEPT ![t] = Append(@, Len(@) + 1)]
    /\ UNCHANGED <<file, dataOK, rwlock, rwtx, txs, freelist, tx, pc, op, loc,
                   okMeta, hist>>
    /\ last' = NoCall

\* Commit: return nil.
CommitReturn(t) ==
    /\ pc[t] = "handlers"
    /\ Len(invoked[t]) = tx[t].handlers
    /\ last' = Returned(t, "Commit", "nil")
    /\ op' = [op EXCEPT ![t] = "none"]
    /\ loc' = [loc EXCEPT ![t] = NoLoc]
    /\ pc' = [pc EXCEPT ![t] = "idle"]
    /\ hist' = [hist EXCEPT ![t] = Kept(@)]
    /\ UNCHANGED <<file, dataOK, rwlock, rwtx, txs, freelist, tx, invoked, okMeta>>

\* ----------------------------------------------------------- Tx.Rollback
RollbackClosed(t) ==
    /\ pc[t] = "idle" /\ ~tx[t].db
    /\ last' = Returned(t, "Rollback", "ErrTxClosed")
    /\ UNCHANGED <<file, dataOK, rwlock, rwtx, txs, freelist, tx, pc, op, loc,
                   invoked, okMeta, hist>>

\* Rollback on an open writable transaction: nonPhysicalRollback, that is
\* freelist.rollback and tx.close() up to the unlock.
RollbackRW(t) ==
    /\ pc[t] = "idle" /\ tx[t].db /\ tx[t].writable
    /\ op' = [op EXCEPT ![t] = "Rollback"]
    /\ freelist' = tx_nonPhysicalRollback(TRUE, freelist, tx[t].meta.txid)
    /\ CloseUnlock(t, [hist[t] EXCEPT !.rollback = "nonphysical"],
                   tx_nonPhysicalRollback(TRUE, freelist, tx[t].meta.txid))
    /\ UNCHANGED <<file, dataOK, txs, tx, loc, invoked, okMeta>>
    /\ last' = NoCall

\* Rollback on an open read-only transaction: nonPhysicalRollback, where
\* tx.close() removes it from db.txs and clears the references.
RollbackRO(t) ==
    /\ pc[t] = "idle" /\ tx[t].db /\ ~tx[t].writable
    /\ last' = Returned(t, "Rollback", "nil")
    /\ txs' = txs \ {t}
    /\ rwlock' = close_rwlock(FALSE, rwlock)
    /\ tx' = [tx EXCEPT ![t] = tx_cleared(@)]
    /\ hist' = [hist EXCEPT ![t] = Kept(@)]
    /\ freelist' = tx_nonPhysicalRollback(FALSE, freelist, tx[t].meta.txid)
    /\ UNCHANGED <<file, dataOK, rwtx, pc, op, loc, invoked, okMeta>>

\* tx.rollback(), tx.nonPhysicalRollback() or tx.close() called on a closed
\* transaction by the package: tx.db == nil, and the function returns at
\* once.
InternalClosed(t) ==
    /\ pc[t] = "idle" /\ ~tx[t].db
    /\ \E fn \in {"rollback", "nonPhysicalRollback", "close"} :
          last' = Returned(t, fn, "return")
    /\ UNCHANGED <<file, dataOK, rwlock, rwtx, txs, freelist, tx, pc, op, loc,
                   invoked, okMeta, hist>>

\* ------------------------------------------------------- Tx.DeleteBucket
\* tx.root.DeleteBucket(name) (bucket.go): the pages of the bucket are freed
\* at once, under the transaction's txid.  The buckets go lowest page first.
DeleteBucket(t) ==
    /\ pc[t] = "idle" /\ tx[t].db /\ tx[t].writable
    /\ \E p \in bucketPages :
          /\ ~freelist_freed(freelist, p) /\ p \notin freelist.allocs
          /\ p # tx[t].root
          /\ p = Min({q \in bucketPages : ~freelist_freed(freelist, q)
                                           /\ q \notin freelist.allocs
                                           /\ q # tx[t].root})
          /\ freelist' = freelist_free(freelist, tx[t].meta.txid, p)
    /\ UNCHANGED <<file, dataOK, rwlock, rwtx, txs, tx, pc, op, loc, invoked,
                   okMeta, hist>>
    /\ last' = NoCall

\* --------------------------------------------------------------- Tx.Page
\* The page ids a client asks for: a negative one, a meta, a freelist page,
\* the first root and the two pages after it.
PageIds == {-1, 0, freelistPageId(0), InitRoot, InitRoot + 1, InitRoot + 2}

\* Flags of a page whose bytes the file model does not hold: a leaf, a page
\* never written.
UnknownFlags == {leafPageFlag, 0}

\* db.page(id): the headers the mapping may show at id.  A valid meta page
\* and a valid freelist page are as meta.write and freelist.write made
\* them; of every other page the header is any of the above.
dbPages(id) ==
    IF id \in 0..1 /\ metaSlot[id].valid
    THEN {Page(id, metaPageFlag, 0, 0)}
    ELSE IF \E r \in 0..1 : id = freelistPageId(r) /\ flRegion[r].valid
    THEN LET r == regionOf(id)
             n == Cardinality(flRegion[r].ids)
         IN  {Page(id, freelistPageFlag, n,
                   freelistPages(pageHeaderSize + pgidSize * n) - 1)}
    ELSE {Page(id, f, 0, 0) : f \in UnknownFlags}

\* pgid(id) >= n for an int id: the conversion to uint64 takes a negative id
\* to 2^64 + id, above every page id there is.
pgidAtLeast(id, n) == id < 0 \/ id >= n

NoInfo == [ID |-> 0, Count |-> 0, OverflowCount |-> 0, Type |-> [kind |-> "nil"]]

\* Tx.Page giving the page's own type also for a page the freelist holds.
tx_Page_typOnly(t, id, p) ==
    IF ~tx[t].db THEN [info |-> NoInfo, isNil |-> TRUE, err |-> "ErrTxClosed"]
    ELSE IF pgidAtLeast(id, tx[t].meta.pgid)
    THEN [info |-> NoInfo, isNil |-> TRUE, err |-> "nil"]
    ELSE IF ~freelist.loaded
    THEN [info |-> NoInfo, isNil |-> TRUE, err |-> "ErrFreePagesNotLoaded"]
    ELSE [info |-> [ID |-> id, Count |-> p.count, OverflowCount |-> p.overflow,
                    Type |-> typ(p.flags)],
          isNil |-> FALSE, err |-> "nil"]

\* Tx.Page with the test of db.freelist before the test of the high-water
\* mark.
tx_Page_loadedFirst(t, id, p) ==
    IF ~tx[t].db THEN [info |-> NoInfo, isNil |-> TRUE, err |-> "ErrTxClosed"]
    ELSE IF ~freelist.loaded
    THEN [info |-> NoInfo, isNil |-> TRUE, err |-> "ErrFreePagesNotLoaded"]
    ELSE IF pgidAtLeast(id, tx[t].meta.pgid)
    THEN [info |-> NoInfo, isNil |-> TRUE, err |-> "nil"]
    ELSE [info |-> [ID |-> id, Count |-> p.count, OverflowCount |-> p.overflow,
                    Type |-> IF freelist_freed(freelist, id)
                             THEN [kind |-> "free"] ELSE typ(p.flags)],
          isNil |-> FALSE, err |-> "nil"]

\* Tx.Page(id) with p = db.page(id): closed, then past the high-water mark,
\* then the freelist not loaded, then the page's information.
tx_Page(t, id, p) ==
    IF ~tx[t].db THEN [info |-> NoInfo, isNil |-> TRUE, err |-> "ErrTxClosed"]
    ELSE IF pgidAtLeast(id, tx[t].meta.pgid)
    THEN [info |-> NoInfo, isNil |-> TRUE, err |-> "nil"]
    ELSE IF ~freelist.loaded
    THEN [info |-> NoInfo, isNil |-> TRUE, err |-> "ErrFreePagesNotLoaded"]
    ELSE [info |-> [ID |-> id, Count |-> p.count, OverflowCount |-> p.overflow,
                    Type |-> IF freelist_freed(freelist, id)
                             THEN [kind |-> "free"] ELSE typ(p.flags)],
          isNil |-> FALSE, err |-> "nil"]

\* A call of Page: nothing is written.
PageCall(t) ==
    /\ pc[t] = "idle"
    /\ t = PageTx
    /\ \E id \in PageIds : \E p \in dbPages(id) :
          last' = [tx |-> t, op |-> "Page", closed |-> ~tx[t].db, id |-> id,
                   hwm |-> tx[t].meta.pgid, loaded |-> freelist.loaded,
                   freed |-> freelist_freed(freelist, id), page |-> p,
                   fresh |-> file = <<[i \in 0..1 |-> InitMeta(i)],
                                       [i \in 0..1 |-> IF i = 0 THEN FlPage({})
                                                                ELSE TornFlPage]>>,
                   ret |-> tx_Page(t, id, p).err, val |-> tx_Page(t, id, p)]
    /\ UNCHANGED <<file, dataOK, rwlock, rwtx, txs, freelist, tx, pc, op, loc,
                   invoked, okMeta, hist>>

\* ------------------- the functions of page.go, commitFreelist and write
\* A call of a function of page.go that is about to be made.
Input(fn, args) == [op |-> "input", fn |-> fn, args |-> args]

\* Values of a field with the bound m: the lowest, the highest, every other
\* bit set, and the values just above the bound.
near(m) == {0, 1, m \div 3, m - 1, m} \cup {m + k : k \in 1..MaxOver}

\* fill(flags, pos, ksize, vsize).
FillInputs ==
    {Input("fill", <<f, p, k, v>>) :
        f \in 0..1, p \in near(posMask), k \in near(ksizeMask),
        v \in near(vsizeMask)}

\* Ascending sequences without duplicates; the two may share ids.
MergeSeqs == {sorted(S) : S \in SUBSET (1..MaxMergeId)}
MergeInputs == {Input("merge", <<a, b>>) : a \in MergeSeqs, b \in MergeSeqs}

\* mergepgids with a dst one shorter than, as long as and one longer than a
\* and b together.
MergepgidsInputs ==
    {Input("mergepgids", <<make(n), a, b>>) :
        <<n, a, b>> \in {<<m, x, y>> \in (0..(2 * MaxMergeId + 1)) \X MergeSeqs \X MergeSeqs :
                              /\ m >= Len(x) + Len(y) - 1
                              /\ m <= Len(x) + Len(y) + 1}}

\* fastCheck(id) on a page that says it is page pid with the given flags.
FastCheckInputs ==
    {Input("fastCheck", <<Page(pid, fl, 0, 0), id>>) :
        pid \in 0..2, fl \in 0..MaxFlag, id \in 0..2}

\* pages.Less: by page id.
pages_Less(a, b) == a.id < b.id

\* sort.Sort(pages): each page is put before the first page it is less than.
RECURSIVE insertPage(_, _)
insertPage(p, s) ==
    IF s = <<>> THEN <<p>>
    ELSE IF pages_Less(p, Head(s)) THEN <<p>> \o s
    ELSE <<Head(s)>> \o insertPage(p, Tail(s))

RECURSIVE sortPages(_)
sortPages(s) == IF s = <<>> THEN <<>> ELSE insertPage(Head(s), sortPages(Tail(s)))

\* What write() has done so far: the calls of writeAt made (the page, the
\* file offset, where in the page the chunk starts, its size, whether the
\* call failed), tx.stats.Write, the calls of writeAt still to succeed
\* before one fails (0: none fails) and the error.
NoWrites(failAt) == [writes |-> <<>>, Write |-> 0, failAt |-> failAt, err |-> "nil"]

\* The chunk loop of write() with offset not moved forward.
RECURSIVE chunkLoop_sameOffset(_, _, _, _, _, _)
chunkLoop_sameOffset(id, rem, offset, written, maxAlloc, w) ==
    LET sz == IF rem > maxAlloc - 1 THEN maxAlloc - 1 ELSE rem
        fails == w.failAt = 1
        w2 == [w EXCEPT !.writes = Append(@, [id |-> id, offset |-> offset,
                                              from |-> written, sz |-> sz,
                                              failed |-> fails]),
                        !.failAt = IF @ > 0 THEN @ - 1 ELSE 0]
    IN  IF fails THEN [w2 EXCEPT !.err = "writeErr"]
        ELSE IF rem - sz = 0 THEN [w2 EXCEPT !.Write = @ + 1]
        ELSE chunkLoop_sameOffset(id, rem - sz, offset, written + sz, maxAlloc,
                                  [w2 EXCEPT !.Write = @ + 1])

\* The chunk loop of write() for one page: sz is rem capped at
\* maxAllocSize - 1; writeAt at offset, and its error ends write(); the
\* statistic is incremented; rem, offset and written move by sz.
RECURSIVE chunkLoop(_, _, _, _, _, _)
chunkLoop(id, rem, offset, written, maxAlloc, w) ==
    LET sz == IF rem > maxAlloc - 1 THEN maxAlloc - 1 ELSE rem
        fails == w.failAt = 1
        w2 == [w EXCEPT !.writes = Append(@, [id |-> id, offset |-> offset,
                                              from |-> written, sz |-> sz,
                                              failed |-> fails]),
                        !.failAt = IF @ > 0 THEN @ - 1 ELSE 0]
    IN  IF fails THEN [w2 EXCEPT !.err = "writeErr"]
        ELSE IF rem - sz = 0 THEN [w2 EXCEPT !.Write = @ + 1]
        ELSE chunkLoop(id, rem - sz, offset + sz, written + sz, maxAlloc,
                       [w2 EXCEPT !.Write = @ + 1])

\* The page loop of write() over the sorted pages.
RECURSIVE pageLoop(_, _, _, _)
pageLoop(ps, maxAlloc, s, w) ==
    IF s = <<>> \/ w.err # "nil" THEN w
    ELSE pageLoop(ps, maxAlloc, Tail(s),
                  chunkLoop(Head(s).id, (Head(s).overflow + 1) * ps,
                            Head(s).id * ps, 0, maxAlloc, w))

\* Tx.write up to the sync: the pages as the range over tx.pages gave them
\* are sorted and written.
tx_write(collected, ps, maxAlloc, failAt) ==
    pageLoop(ps, maxAlloc, sortPages(collected), NoWrites(failAt))

\* The orders in which a range over the map tx.pages can give the pages S.
Orders(S) ==
    {o \in [1..Cardinality(S) -> S] : \A i, j \in 1..Cardinality(S) : o[i] = o[j] => i = j}

\* Dirty pages: distinct ids, no page inside the overflow of another.
DirtyPages ==
    {S \in SUBSET [id : 1..MaxWriteId, overflow : 0..MaxOverflow] :
        /\ Cardinality(S) <= MaxWritePages
        /\ \A p, q \in S : p # q => (p.id + p.overflow < q.id \/ q.id + q.overflow < p.id)}

\* write() on the dirty pages in one of the orders, with a page size, with
\* maxAllocSize - 1 half a page, a page, a page and a half or three pages,
\* and with the writeAt that fails.
WriteInputs ==
    {Input("write", <<x[1], pageSize, x[2] + 1, x[3]>>) :
        x \in (UNION {Orders(S) : S \in DirtyPages})
                  \X {pageSize \div 2, pageSize, pageSize + pageSize \div 2, 3 * pageSize}
                  \X (0..MaxFailAt)}

\* commitFreelist on a freelist of n ids, with a page size and a region of a
\* whole number of pages.
CommitFreelistInputs ==
    {Input("commitFreelist", <<pageHeaderSize + pgidSize * x[4], x[1], x[1] * x[2], x[3]>>) :
        x \in {y \in {pageSize, 2 * pageSize} \X (2..MaxRegionPages) \X (0..MaxFlid)
                       \X (0..((2 * pageSize * MaxRegionPages) \div pgidSize)) :
                   pageHeaderSize + pgidSize * y[4] <= y[1] * y[2]}}

\* No transaction, and one call of a function about to be made.
InitPure ==
    \E l \in FillInputs \cup MergeInputs \cup MergepgidsInputs \cup FastCheckInputs
              \cup CommitFreelistInputs \cup WriteInputs :
        InitCall(EmptyFreelist, InitRoot + 1, l)

\* fill on a zeroed element, then the four accessors on the result.
FillCall ==
    /\ last.op = "input" /\ last.fn = "fill"
    /\ LET a == last.args
           r == leaf_fill(a[1], a[2], a[3], a[4])
       IN  last' = [op |-> "fill", flags |-> a[1], pos |-> a[2], ksize |-> a[3],
                    vsize |-> a[4], panic |-> r.panic, data |-> r.data,
                    got |-> [flags |-> leaf_flags(r.data), pos |-> leaf_pos(r.data),
                             ksize |-> leaf_ksize(r.data),
                             vsize |-> leaf_vsize(r.data)]]
    /\ UNCHANGED <<file, dataOK, rwlock, rwtx, txs, freelist, tx, pc, op, loc,
                   invoked, okMeta, hist>>

MergeCall ==
    /\ last.op = "input" /\ last.fn = "merge"
    /\ last' = [op |-> "merge", a |-> last.args[1], b |-> last.args[2],
                out |-> merge(last.args[1], last.args[2])]
    /\ UNCHANGED <<file, dataOK, rwlock, rwtx, txs, freelist, tx, pc, op, loc,
                   invoked, okMeta, hist>>

MergepgidsCall ==
    /\ last.op = "input" /\ last.fn = "mergepgids"
    /\ LET r == mergepgids(last.args[1], last.args[2], last.args[3])
       IN  last' = [op |-> "mergepgids", dst |-> last.args[1], a |-> last.args[2],
                    b |-> last.args[3], panic |-> r.panic, out |-> r.dst]
    /\ UNCHANGED <<file, dataOK, rwlock, rwtx, txs, freelist, tx, pc, op, loc,
                   invoked, okMeta, hist>>

\* fastCheck, and typ() if it returned.
FastCheckCall ==
    /\ last.op = "input" /\ last.fn = "fastCheck"
    /\ LET p == last.args[1]
           r == fastCheck(p, last.args[2])
       IN  last' = [op |-> "fastCheck", page |-> p, id |-> last.args[2], out |-> r,
                    typ |-> IF r = "ok" THEN typ(p.flags) ELSE [kind |-> "none"]]
    /\ UNCHANGED <<file, dataOK, rwlock, rwtx, txs, freelist, tx, pc, op, loc,
                   invoked, okMeta, hist>>

\* The arithmetic of commitFreelist: the guard, and if it passes the number
\* of pages, the overflow and the id of the freelist page.
CommitFreelistCall ==
    /\ last.op = "input" /\ last.fn = "commitFreelist"
    /\ LET size == last.args[1]
           ps == last.args[2]
           rs == last.args[3]
           flid == last.args[4]
           fits == freelistFitsAt(size, ps, rs)
       IN  last' = [op |-> "commitFreelist", size |-> size, ps |-> ps, rs |-> rs,
                    flid |-> flid, panic |-> ~fits,
                    pages |-> IF fits THEN freelistPagesAt(size, ps) ELSE 0,
                    overflow |-> IF fits THEN freelistPagesAt(size, ps) - 1 ELSE 0,
                    id |-> IF fits THEN freelistPageIdAt(flid, ps, rs) ELSE 0]
    /\ UNCHANGED <<file, dataOK, rwlock, rwtx, txs, freelist, tx, pc, op, loc,
                   invoked, okMeta, hist>>

\* write() on the pages collected, up to the sync.
WriteCall ==
    /\ last.op = "input" /\ last.fn = "write"
    /\ LET w == tx_write(last.args[1], last.args[2], last.args[3], last.args[4])
       IN  last' = [op |-> "write", pages |-> last.args[1], ps |-> last.args[2],
                    maxAllocSize |-> last.args[3], writes |-> w.writes,
                    Write |-> w.Write, err |-> w.err]
    /\ UNCHANGED <<file, dataOK, rwlock, rwtx, txs, freelist, tx, pc, op, loc,
                   invoked, okMeta, hist>>

NextPure ==
    \/ FillCall \/ MergeCall \/ MergepgidsCall \/ FastCheckCall
    \/ CommitFreelistCall \/ WriteCall

SpecPure == InitPure /\ [][NextPure]_vars

\* ------------------------------------------------------------------ Next
\* Begin, OnCommit, Commit and Rollback on open transactions.
Next ==
    \E t \in Txs :
        \/ BeginRW(t)
        \/ BeginRO(t)
        \/ OnCommit(t)
        \/ CommitSpill(t)
        \/ CommitFreelist(t)
        \/ Grow(t)
        \/ WritePage(t)
        \/ WriteSync(t)
        \/ StrictCheck(t)
        \/ WriteMeta(t)
        \/ MetaSync(t)
        \/ CloseFinish(t)
        \/ RunHandler(t)
        \/ CommitReturn(t)
        \/ RollbackRW(t)
        \/ RollbackRO(t)

Spec == Init /\ [][Next]_vars

\* The calls that return an error and do nothing.
Refused ==
    \E t \in Txs :
        \/ CommitClosed(t)
        \/ CommitNotWritable(t)
        \/ RollbackClosed(t)
        \/ InternalClosed(t)

\* Begin, Commit and Rollback on open transactions, no handler registered.
NextPlain ==
    \E t \in Txs :
        \/ BeginRW(t)
        \/ BeginRO(t)
        \/ CommitSpill(t)
        \/ CommitFreelist(t)
        \/ Grow(t)
        \/ WritePage(t)
        \/ WriteSync(t)
        \/ StrictCheck(t)
        \/ WriteMeta(t)
        \/ MetaSync(t)
        \/ CloseFinish(t)
        \/ CommitReturn(t)
        \/ RollbackRW(t)
        \/ RollbackRO(t)

\* Commit and Rollback called in every state of a transaction.
NextCalls == NextPlain \/ Refused

SpecCalls == Init /\ [][NextCalls]_vars

\* Writable transactions on a database with child buckets, which they
\* delete.
NextBuckets ==
    \E t \in Txs :
        \/ BeginRW(t)
        \/ BeginRO(t)
        \/ DeleteBucket(t)
        \/ CommitSpill(t)
        \/ CommitFreelist(t)
        \/ Grow(t)
        \/ WritePage(t)
        \/ WriteSync(t)
        \/ StrictCheck(t)
        \/ WriteMeta(t)
        \/ MetaSync(t)
        \/ CloseFinish(t)
        \/ CommitReturn(t)
        \/ RollbackRW(t)
        \/ RollbackRO(t)

SpecBuckets == InitBuckets /\ [][NextBuckets]_vars

\* Page called between the other calls, on a database in either mode.
NextPage == NextPlain \/ \E t \in Txs : PageCall(t)

SpecPage == InitAnyMode /\ [][NextPage]_vars

\* The calls that read the transaction.
Accessors ==
    \E t \in Txs :
        \/ IDCall(t)
        \/ SizeCall(t)
        \/ WritableCall(t)
        \/ StatsCall(t)
        \/ PageCall(t)

\* Every call in every state of a transaction.
NextAll == Next \/ Refused \/ Accessors

SpecAll == InitAnyMode /\ [][NextAll]_vars

\* ---------------------------------------------------------------- claims
\* A writable transaction between Tx.init and the unlock in Tx.close; a
\* panic leaves it there.
holdsWriterLock(t) ==
    /\ tx[t].db /\ tx[t].writable
    /\ pc[t] # "close"

\* A Commit that has just returned an error raised inside it.
CommitFailed == last.op = "Commit" /\ last.ret # "nil"

\* C1: at most one writable transaction is active at any time: from its
\* creation to the unlock in its close() a writable transaction holds
\* db.rwlock and is db.rwtx, and no second one is initialised in between.
C1_SingleWriter ==
    /\ \A t \in Txs : holdsWriterLock(t) => (rwlock /\ rwtx = t)
    /\ \A t, u \in Txs : (holdsWriterLock(t) /\ holdsWriterLock(u)) => t = u
    /\ \A t \in Txs : hist[t].unlocks <= 1

\* C1 witness: a second writable transaction is active, in the middle of its
\* Commit, after the first has unlocked and closed.
C1_Witness ==
    \E t, u \in Txs :
        /\ t # u
        /\ holdsWriterLock(t) /\ pc[t] = "metasync"
        /\ tx[u].writable /\ ~tx[u].db /\ hist[u].unlocks = 1

\* C2: a read-only transaction started after a successful Commit observes
\* that commit's root: the root it works on is the root of the last meta a
\* Commit returned nil for before it began (no Commit being between its meta
\* write and its return at that moment).
C2_ReaderSeesLastSuccess ==
    \A t \in Txs :
        (tx[t].db /\ ~tx[t].writable /\ ~hist[t].midCommit)
            => tx[t].meta.root = hist[t].okAtBegin.root

\* C3: when Commit returns an error, DB.meta() is what it was when the
\* transaction began, no other Commit having returned nil meanwhile.
C3_FailedCommitInvisible ==
    (CommitFailed /\ okMeta = last.okAtBegin) => dbMeta = last.committed

\* C4: in every state at least one of the two meta slots holds the complete
\* meta of a transaction whose Commit returned nil (or of the database as it
\* was created).
C4_OneSlotCommitted ==
    \E i \in 0..1 :
        /\ metaSlot[i].valid
        /\ metaSlot[i] = okMeta \/ metaSlot[i] = InitMeta(0)

\* C5: the meta page is written only by the writer whose write() is over:
\* every dirty page of the transaction, the freelist page among them, has been
\* written, none is left in the cache or the queue, and the data sync has
\* succeeded unless NoSync was set and IgnoreNoSync was not.
C5_MetaAfterPages ==
    [][metaSlot' # metaSlot =>
        \E t \in Txs :
            /\ rwtx = t /\ pc[t] = "meta"
            /\ tx[t].pages = {} /\ loc[t].queue = <<>>
            /\ loc[t].flpid \in hist[t].dirty
            /\ {hist[t].written[i] : i \in 1..Len(hist[t].written)} = hist[t].dirty
            /\ hist[t].sync \in {"done", "skipped"}]_vars

\* C5 witness: the meta is written after the freelist page, the new root page
\* and the data sync.
C5_Witness ==
    \E t \in Txs :
        /\ pc[t] = "metasync"
        /\ metaSlot[metaPageId(tx[t].meta)] = tx[t].meta
        /\ Len(hist[t].written) = 2
        /\ hist[t].sync = "done"

\* C6: the freelist page of a commit lies at page id
\* 2 + (flid % 2) * (freelistRegionSize / pageSize), and not in the region
\* of the last Commit that had returned nil when the transaction began.
C6_RegionAlternates ==
    \A t \in Txs :
        loc[t].flpid # 0 =>
            /\ loc[t].flpid =
                   2 + (tx[t].meta.flid % 2) * (freelistRegionSize \div pageSize)
            /\ regionOf(loc[t].flpid) # hist[t].okAtBegin.flid % 2

C8_FailedCommitRollsBack ==
    CommitFailed =>
        /\ last.ret \in {"spillErr", "freelistErr", "growErr", "writeErr", "syncErr",
                         "metaWriteErr", "metaSyncErr"}
        /\ last.rollback = "physical"
        /\ last.failed = last.ret
        /\ ~tx[last.tx].db /\ tx[last.tx].meta = NilMeta
        /\ rwtx # last.tx
        /\ hist[last.tx].unlocks = 1
        /\ invoked[last.tx] = <<>>

\* C8 witness: a Commit with two handlers registered returns the error of a
\* page write.
C8_Witness ==
    /\ CommitFailed
    /\ last.ret = "writeErr"
    /\ tx[last.tx].handlers = 2

C10_Handlers ==
    /\ \A t \in Txs :
        /\ Len(invoked[t]) <= tx[t].handlers
        /\ \A i \in 1..Len(invoked[t]) : invoked[t][i] = i
        /\ invoked[t] # <<>> =>
              (hist[t].ok /\ ~tx[t].db /\ rwtx # t /\ hist[t].unlocks = 1)
    /\ (last.op = "Commit" /\ last.ret = "nil")
           => Len(invoked[last.tx]) = tx[last.tx].handlers
    /\ (last.op = "Rollback" \/ CommitFailed) => invoked[last.tx] = <<>>

\* C10 witness: Commit returns nil having invoked two handlers in order.
C10_Witness ==
    /\ last.op = "Commit" /\ last.ret = "nil"
    /\ invoked[last.tx] = <<1, 2>>

\* C11: any operation on a closed transaction fails with "transaction
\* closed": a call of Commit, Rollback, Page, ID, Size, Stats or Writable on
\* it ends with ErrTxClosed, and OnCommit does not register the handler.
C11_ClosedFails ==
    [][\A t \in Txs :
          pc[t] = "idle" /\ ~tx[t].db =>
              /\ last'.tx = t => last'.ret = "ErrTxClosed"
              /\ tx'[t] = tx[t]]_vars

\* C12: Commit on an open read-only transaction returns ErrTxNotWritable and
\* changes nothing: the transaction stays open and registered, nothing is
\* written and no lock is released.  Commit on a closed transaction returns
\* ErrTxClosed, read-only or not: the closed test comes first.
C12_CommitRefused ==
    [][\A t \in Txs :
          pc[t] = "idle" /\ last'.tx = t /\ last'.op = "Commit" =>
              /\ ~tx[t].db => last'.ret = "ErrTxClosed"
              /\ tx[t].db =>
                    /\ ~tx[t].writable
                    /\ last'.ret = "ErrTxNotWritable"
                    /\ tx'[t].db /\ t \in txs'
              /\ UNCHANGED <<file, dataOK, rwlock, rwtx, txs, freelist, tx, pc>>]_vars

\* C12 witness: Commit has just returned ErrTxNotWritable to an open reader
\* while a read-only transaction that was rolled back before is closed.
C12_Witness ==
    /\ last.op = "Commit" /\ last.ret = "ErrTxNotWritable"
    /\ tx[last.tx].db /\ last.tx \in txs
    /\ \E u \in Txs : pc[u] = "idle" /\ ~tx[u].db /\ ~tx[u].writable

\* C13: a Rollback the user calls is non-physical.  On a writable
\* transaction it reverts the in-memory freelist for the transaction's txid
\* and closes, without a reload from the freelist page and without a write to
\* the file; on a read-only transaction it leaves the freelist alone and
\* takes the transaction out of db.txs.  The committed meta is as before.
C13_UserRollback ==
    [][\A t \in Txs :
          /\ pc[t] = "idle" /\ tx[t].db /\ tx[t].writable /\ op'[t] = "Rollback" =>
                /\ freelist' = freelist_rollback(freelist, tx[t].meta.txid)
                /\ pc'[t] = "close" /\ ~rwlock' /\ rwtx' = NoTx
                /\ UNCHANGED <<file, dataOK, txs>>
                /\ dbMeta' = dbMeta
          /\ pc[t] = "idle" /\ tx[t].db /\ ~tx[t].writable
               /\ last'.tx = t /\ last'.op = "Rollback" =>
                /\ last'.ret = "nil"
                /\ freelist' = freelist
                /\ txs' = txs \ {t} /\ ~tx'[t].db
                /\ UNCHANGED <<file, dataOK, rwlock, rwtx>>
                /\ dbMeta' = dbMeta]_vars

\* C13 witness: a writable transaction has been rolled back by its user and
\* is closing, and the Rollback of a read-only transaction has just returned
\* nil.
C13_Witness ==
    /\ last.op = "Rollback" /\ last.ret = "nil" /\ ~tx[last.tx].writable
    /\ \E t \in Txs :
          /\ op[t] = "Rollback" /\ pc[t] = "close" /\ tx[t].writable
          /\ hist[t].rollback = "nonphysical" /\ ~rwlock

\* C14: Page(id) on an open transaction, read-only or writable, returns
\* (nil, nil) for every id at or above the transaction's high-water mark
\* tx.meta.pgid, also when the freelist is not loaded: the test of the
\* high-water mark comes before the test of db.freelist.
C14_PagePastHighWater ==
    last.op = "Page" /\ ~last.closed /\ last.id >= last.hwm =>
        last.ret = "nil" /\ last.val.isNil

\* C14 witness: Page has returned (nil, nil) for the id at the high-water mark
\* to a reader of a database whose freelist is not loaded.
C14_Witness ==
    /\ last.op = "Page" /\ ~last.closed /\ last.id = last.hwm
    /\ ~last.loaded /\ ~tx[last.tx].writable
    /\ last.ret = "nil" /\ last.val.isNil

\* C15: with the freelist loaded, Page(id) on an open transaction for an id
\* below the high-water mark returns no error and a PageInfo whose Type is
\* "free" if freelist.freed(id) and the page's typ() otherwise.  Page(0) on a
\* new, empty database gives the type "meta", to a writable and to a
\* read-only transaction, and the call leaves the database and the
\* transaction as they were, so that Commit and Rollback go on as without it.
C15_PageInfo ==
    /\ [](last.op = "Page" /\ ~last.closed /\ last.loaded
            /\ last.id >= 0 /\ last.id < last.hwm =>
              /\ last.ret = "nil" /\ ~last.val.isNil
              /\ last.val.info.ID = last.id
              /\ last.val.info.Type = IF last.freed THEN [kind |-> "free"]
                                      ELSE typ(last.page.flags)
              /\ last.id = 0 /\ last.fresh => last.val.info.Type = [kind |-> "meta"])
    /\ [][last'.op = "Page" =>
            UNCHANGED <<file, dataOK, rwlock, rwtx, txs, freelist, tx, pc, op,
                        loc, invoked, okMeta, hist>>]_vars

\* C15 witness: Page has told a reader that the page of the first root is
\* free, which a writer freed after the reader began.
C15_Witness ==
    /\ last.op = "Page" /\ ~last.closed /\ last.loaded /\ last.id = InitRoot
    /\ last.id < last.hwm /\ last.freed /\ ~tx[last.tx].writable
    /\ last.val.info.Type = [kind |-> "free"] /\ last.ret = "nil"

\* C16, as stated: a Commit whose serialized freelist size exceeds
\* freelistRegionSize - pageSize aborts fatally before any freelist or dirty
\* page is written, and one whose size does not exceed it passes the guard.
C16_GuardExceeds ==
    [][\A t \in Txs :
          pc[t] = "freelist" /\ pc'[t] # "freelist" =>
              /\ freelist_size(freelist) > freelistRegionSize - pageSize =>
                    /\ pc'[t] = "panicked"
                    /\ hist'[t].written = <<>> /\ loc'[t].flpid = 0
                    /\ UNCHANGED <<file, tx, freelist>>
              /\ freelist_size(freelist) <= freelistRegionSize - pageSize =>
                    pc'[t] # "panicked"]_vars

\* C16, amended: a Commit whose serialized freelist size is at least
\* freelistRegionSize - pageSize aborts fatally before any freelist or dirty
\* page is written, and one whose size is below it passes the guard.
C16_GuardAtLeast ==
    [][\A t \in Txs :
          pc[t] = "freelist" /\ pc'[t] # "freelist" =>
              /\ freelist_size(freelist) >= freelistRegionSize - pageSize =>
                    /\ pc'[t] = "panicked"
                    /\ hist'[t].written = <<>> /\ loc'[t].flpid = 0
                    /\ UNCHANGED <<file, tx, freelist>>
              /\ freelist_size(freelist) < freelistRegionSize - pageSize =>
                    pc'[t] # "panicked"]_vars

\* C16 witness: a Commit has aborted in the guard with a freelist larger than
\* freelistRegionSize - pageSize; it has written nothing and registered no
\* freelist page.
C16_Witness ==
    \E t \in Txs :
        /\ pc[t] = "panicked" /\ loc[t].flpid = 0 /\ hist[t].written = <<>>
        /\ freelist_size(freelist) > freelistRegionSize - pageSize
        /\ freelistPageId(tx[t].meta.flid) \notin tx[t].pages

\* C17: for flags in {0, 1}, pos in 0..2^26-1, ksize in 0..8191 and vsize in
\* 0..2^24-1, fill does not panic and flags(), pos(), ksize(), vsize() of the
\* filled element give back the four values.
C17_LeafRoundTrip ==
    last.op = "fill" /\ last.flags \in 0..1 /\ last.pos <= posMask
        /\ last.ksize <= ksizeMask /\ last.vsize <= vsizeMask =>
            /\ ~last.panic
            /\ last.got = [flags |-> last.flags, pos |-> last.pos,
                           ksize |-> last.ksize, vsize |-> last.vsize]

\* C17 witness: the four highest values have gone through fill and come
\* back.
C17_Witness ==
    /\ last.op = "fill" /\ ~last.panic
    /\ last.flags = 1 /\ last.pos = posMask /\ last.ksize = ksizeMask
    /\ last.vsize = vsizeMask
    /\ last.got.flags = 1 /\ last.got.pos = posMask
    /\ last.got.ksize = ksizeMask /\ last.got.vsize = vsizeMask

\* C18: fill with a ksize above 8191 or a vsize above 2^24-1 is rejected
\* fatally before anything is packed: the value is never truncated and never
\* changes pos or flags.
C18_FillRejects ==
    last.op = "fill" /\ (last.ksize > ksizeMask \/ last.vsize > vsizeMask) =>
        last.panic

\* Strictly ascending.
ascending(s) == \A i \in 1..(Len(s) - 1) : s[i] < s[i + 1]
elems(s) == {s[i] : i \in 1..Len(s)}

\* C19: merge of two ascending, duplicate-free, disjoint sequences is an
\* ascending sequence of length len(a)+len(b) whose elements are the union
\* of theirs; merge(a, []) is a and merge([], b) is b; mergepgids panics if
\* dst is shorter than len(a)+len(b).
C19_MergeDisjoint ==
    /\ last.op = "merge" /\ elems(last.a) \cap elems(last.b) = {} =>
          /\ ascending(last.out)
          /\ Len(last.out) = Len(last.a) + Len(last.b)
          /\ elems(last.out) = elems(last.a) \cup elems(last.b)
          /\ Len(last.b) = 0 => last.out = last.a
          /\ Len(last.a) = 0 => last.out = last.b
    /\ last.op = "mergepgids" /\ Len(last.dst) < Len(last.a) + Len(last.b) =>
          last.panic /\ last.out = last.dst

\* C19 witness: merge has interleaved two disjoint sequences of two ids each,
\* where lead and follow swap more than once.
C19_Witness ==
    /\ last.op = "merge" /\ Len(last.a) = 2 /\ Len(last.b) = 2
    /\ last.a[1] < last.b[1] /\ last.b[1] < last.a[2] /\ last.a[2] < last.b[2]
    /\ last.out = <<last.a[1], last.b[1], last.a[2], last.b[2]>>

\* C20: fastCheck(id) returns exactly if the page's id is id and its flags
\* are one of 0x01, 0x02, 0x04, 0x10; it panics for 0, for two flags
\* together and for unknown bits.  So typ() of a page that has passed
\* fastCheck is never unknown<..>.
C20_FastCheck ==
    last.op = "fastCheck" =>
        /\ last.out = "ok" <=>
              /\ last.page.id = last.id
              /\ last.page.flags \in {branchPageFlag, leafPageFlag, metaPageFlag,
                                      freelistPageFlag}
        /\ last.out \in {"ok", "panic"}
        /\ last.out = "ok" =>
              last.typ.kind \in {"branch", "leaf", "meta", "freelist"}

\* C20 witness: fastCheck has let a freelist page through, and typ() has
\* called it a freelist page.
C20_Witness ==
    /\ last.op = "fastCheck" /\ last.out = "ok"
    /\ last.page.flags = freelistPageFlag /\ last.page.id = last.id
    /\ last.typ = [kind |-> "freelist"]

\* C22: merge of two ascending, duplicate-free sequences that share ids is
\* their sorted union, in which an id of both appears once.
C22_MergeOverlap ==
    last.op = "merge" /\ elems(last.a) \cap elems(last.b) # {} =>
        /\ ascending(last.out)
        /\ elems(last.out) = elems(last.a) \cup elems(last.b)
        /\ Len(last.out) = Cardinality(elems(last.a) \cup elems(last.b))

\* C25: when commitFreelist passes its size guard, the freelist page has
\* overflow pages - 1, pages * pageSize is below freelistRegionSize and not
\* below the serialized size, and the page with its overflow lies inside the
\* region flid % 2 selects: it ends before the other region and before the
\* first allocated page.
C25_FreelistPageInRegion ==
    last.op = "commitFreelist" /\ ~last.panic =>
        LET regionPages == last.rs \div last.ps
            first == 2 + (last.flid % 2) * regionPages
        IN  /\ last.pages = (IF last.size < last.ps THEN 1
                                                   ELSE last.size \div last.ps + 1)
            /\ last.overflow = last.pages - 1
            /\ last.pages * last.ps < last.rs
            /\ last.pages * last.ps >= last.size
            /\ last.id = first
            /\ last.id + last.overflow < first + regionPages
            /\ last.id + last.overflow < 2 + 2 * regionPages

\* C25 witness: a freelist of more than a page passed the guard and went to
\* the second region.
C25_Witness ==
    /\ last.op = "commitFreelist" /\ ~last.panic
    /\ last.size >= last.ps /\ last.overflow >= 1
    /\ last.flid % 2 = 1

\* C24: the statistics a closing writable transaction gives to db.stats
\* describe the freelist as it was when the transaction released the writer
\* lock: close() reads no freelist state after the unlock, so PendingN is
\* len(freelist.pending) of that moment, as FreePageN, PendingPageN and
\* FreelistInuse are of that moment, whatever the next writer has done since.
C24_StatsUnderLock ==
    "stats" \in DOMAIN last => last.stats.PendingN = last.pendingAtUnlock

\* C23: over the Commit and Rollback calls made on one writable transaction
\* the writer lock is unlocked once and the statistics are merged once.  The
\* call that returns from the open state has closed the transaction and
\* released the lock, so that the transaction no longer stands in the way of
\* the next writer; an idle writable transaction has unlocked if and only if
\* it is closed.  Every Commit, Rollback, rollback, nonPhysicalRollback or
\* close on the closed transaction changes nothing (Commit and Rollback
\* return ErrTxClosed), and no later step unlocks or merges for it again.
C23_UnlockOnce ==
    /\ [](/\ \A t \in Txs :
              /\ hist[t].unlocks <= 1 /\ hist[t].merges <= hist[t].unlocks
              /\ (tx[t].writable /\ pc[t] = "idle") =>
                    /\ hist[t].unlocks = (IF tx[t].db THEN 0 ELSE 1)
                    /\ hist[t].merges = hist[t].unlocks
                    /\ rwtx = t <=> tx[t].db
          /\ (/\ last.op \in {"Commit", "Rollback"}
              /\ tx[last.tx].writable
              /\ last.ret # "ErrTxClosed") =>
                    /\ ~tx[last.tx].db
                    /\ hist[last.tx].unlocks = 1 /\ hist[last.tx].merges = 1
                    /\ rwtx # last.tx)
    /\ [][\A t \in Txs :
            (pc[t] = "idle" /\ tx[t].writable /\ ~tx[t].db) =>
                /\ hist'[t] = hist[t] /\ tx'[t] = tx[t] /\ pc'[t] = pc[t]
                /\ (last'.tx = t /\ last'.op \in {"Commit", "Rollback"}) =>
                       last'.ret = "ErrTxClosed"
                /\ (last'.tx = t /\ last'.op # "none") =>
                       UNCHANGED <<file, dataOK, rwlock, rwtx, txs, freelist>>]_vars

\* C23 witness: Rollback has just returned ErrTxClosed to a writable
\* transaction that a failed Commit or a Rollback closed, with one unlock,
\* while the next writable transaction is in the middle of its Commit.
C23_Witness ==
    /\ last.op = "Rollback" /\ last.ret = "ErrTxClosed"
    /\ tx[last.tx].writable /\ hist[last.tx].unlocks = 1
    /\ hist[last.tx].merges = 1 /\ ~hist[last.tx].ok
    /\ \E u \in Txs : u # last.tx /\ holdsWriterLock(u) /\ pc[u] = "metasync"

\* C21: write() calls writeAt page after page in ascending page id, whatever
\* the order in which the pages were collected.  The chunks of a page are at
\* most maxAllocSize - 1 bytes each, the first at file offset id * pageSize
\* and each next one where the one before ended, in the file and in the
\* page; a page written to its end has had (overflow + 1) * pageSize bytes
\* written.  tx.stats.Write has grown by one for each chunk written, and a
\* write() that returns nil has written every page.
C21_WriteChunks ==
    last.op = "write" =>
        LET W == last.writes
            n == Len(W)
            overflowOf(id) == last.pages[CHOOSE i \in 1..Len(last.pages) :
                                             last.pages[i].id = id].overflow
            lastOf(i) == i = n \/ W[i + 1].id # W[i].id
        IN  /\ \A i \in 1..n :
                  /\ \E k \in 1..Len(last.pages) : last.pages[k].id = W[i].id
                  /\ W[i].sz >= 1 /\ W[i].sz <= last.maxAllocSize - 1
                  /\ (i = 1 \/ W[i - 1].id # W[i].id) =>
                        /\ W[i].offset = W[i].id * last.ps /\ W[i].from = 0
                        /\ i > 1 => W[i - 1].id < W[i].id
                  /\ (i > 1 /\ W[i - 1].id = W[i].id) =>
                        /\ W[i].offset = W[i - 1].offset + W[i - 1].sz
                        /\ W[i].from = W[i - 1].from + W[i - 1].sz
                        /\ W[i].offset > W[i - 1].offset
                  /\ (lastOf(i) /\ ~W[i].failed) =>
                        W[i].offset + W[i].sz
                            = (W[i].id + overflowOf(W[i].id) + 1) * last.ps
                  /\ (~lastOf(i)) =>
                        /\ ~W[i].failed
                        /\ W[i + 1].id = W[i].id => W[i].sz = last.maxAllocSize - 1
            /\ \A i, j \in 1..n : (i < j /\ W[i].id = W[j].id) =>
                  \A k \in i..j : W[k].id = W[i].id
            /\ last.Write = Cardinality({i \in 1..n : ~W[i].failed})
            /\ last.err = "nil" <=> (\A i \in 1..n : ~W[i].failed)
            /\ last.err = "nil" =>
                  {W[i].id : i \in 1..n} = {last.pages[k].id : k \in 1..Len(last.pages)}

\* C21 witness: two pages collected in descending page id, the lower one
\* written in two chunks of which the second is shorter, then the higher
\* one, and write() returned nil.
C21_Witness ==
    /\ last.op = "write" /\ last.err = "nil"
    /\ Len(last.pages) = 2 /\ last.pages[1].id > last.pages[2].id
    /\ Len(last.writes) >= 3 /\ last.Write = Len(last.writes)
    /\ last.writes[1].id = last.writes[2].id
    /\ last.writes[2].sz < last.writes[1].sz
    /\ last.writes[3].id > last.writes[2].id

====
